---- MODULE Spec2Model ----
(***************************************************************************)
(* The Google Workspace Terraform provider: the provider's Configure, the  *)
(* Group resource (Create/Read/Update/Delete/ImportState), the Group data  *)
(* source and the Cloud Identity Policy data source, run by the Terraform  *)
(* host one operation at a time against the Admin Directory API.           *)
(*                                                                         *)
(* types.String values are strings; the null and the unknown value are the *)
(* tokens NULL and UNKNOWN.  The Directory API is the environment: a set   *)
(* of groups addressed by a groupKey, which the API resolves against a     *)
(* group's unique id or its email address (Update and Delete hand it the   *)
(* id, the example configuration hands the data source an address).        *)
(*                                                                         *)
(* A data source's Read is given the configuration only and answers with a *)
(* state that starts empty, so what it writes is kept with the operation   *)
(* (last.state); the resource's state is handed to the next operation and  *)
(* is a variable of its own (tfstate).                                     *)
(***************************************************************************)
EXTENDS Naturals, Sequences, FiniteSets, TLC

VARIABLES
    groups,          \* the groups held by the Directory API
    nextId,          \* number of ids the Directory API has assigned
    tfstate,         \* Terraform state of resource googleworkspace_group
    provider,        \* result of GoogleWorkspaceProvider.Configure
    services,        \* adminService / cloudidentityService of each handler
    last             \* the last operation: what it read, the API requests it
                     \* made, their outcome and the state its response carries

vars == <<groups, nextId, tfstate, provider, services, last>>

-----------------------------------------------------------------------------
(* Bounds *)

\* ids the Directory API may assign during a run
MaxGroups == 2

-----------------------------------------------------------------------------
(* Values *)

NULL == "<null>"
UNKNOWN == "<unknown>"
ABSENT == "<absent>"

\* a record that was never written (no resource in state, nil pointer)
NoState == [absent |-> TRUE]
Nil == [nil |-> TRUE]

Emails == {"a@x", "b@x"}
\* display names; a name may read like an address (examples/.../main.tf names
\* the data source's group "everyone@vandebron.nl")
Names == {"n1", "b@x"}
Descriptions == {"d1"}

IdOf(n) == IF n = 1 THEN "id1" ELSE IF n = 2 THEN "id2" ELSE IF n = 3 THEN "id3" ELSE "id4"

\* types.String.ValueString: the empty string for null and unknown
ValueString(v) == IF v \in {NULL, UNKNOWN} THEN "" ELSE v

\* types.StringValue: a known value
StringValue(s) == s

\* admin.Group is marshalled with omitempty and no ForceSendFields: a field
\* holding the empty string is not in the request body
Wire(s) == IF s = "" THEN ABSENT ELSE s

-----------------------------------------------------------------------------
(* The Directory API *)

\* the group a groupKey addresses: by unique id or by email address
Resolve(gs, key) == {g \in gs : g.id = key \/ g.email = key}

\* googleapi.Error.Code of a key that addresses nothing
NotFound == 404

\* a call may fail for reasons of its own (quota, outage): 0 is no fault
Faults == {0, 500}

\* groups.insert: a new id, 409 when the address is taken
GroupsInsert(gs, n, body) ==
    IF \E g \in gs : g.email = body.email
    THEN [code |-> 409, group |-> NoState, groups |-> gs]
    ELSE LET g == [id |-> IdOf(n + 1),
                   email |-> body.email,
                   name |-> IF body.name = ABSENT THEN "" ELSE body.name,
                   description |-> IF body.description = ABSENT THEN "" ELSE body.description]
         IN [code |-> 0, group |-> g, groups |-> gs \cup {g}]

\* groups.get
GroupsGet(gs, key) ==
    IF Resolve(gs, key) = {}
    THEN [code |-> NotFound, group |-> NoState, groups |-> gs]
    ELSE [code |-> 0, group |-> CHOOSE g \in Resolve(gs, key) : TRUE, groups |-> gs]

\* groups.update: the fields of the body replace the group's; a field that is
\* not in the body keeps its value
GroupsUpdate(gs, key, body) ==
    IF Resolve(gs, key) = {}
    THEN [code |-> NotFound, group |-> NoState, groups |-> gs]
    ELSE LET old == CHOOSE g \in Resolve(gs, key) : TRUE
             new == [id |-> old.id,
                     email |-> IF body.email = ABSENT THEN old.email ELSE body.email,
                     name |-> IF body.name = ABSENT THEN old.name ELSE body.name,
                     description |-> IF body.description = ABSENT
                                     THEN old.description ELSE body.description]
         IN IF \E g \in gs \ {old} : g.email = new.email
            THEN [code |-> 409, group |-> NoState, groups |-> gs]
            ELSE [code |-> 0, group |-> new, groups |-> (gs \ {old}) \cup {new}]

\* groups.delete
GroupsDelete(gs, key) ==
    IF Resolve(gs, key) = {}
    THEN [code |-> NotFound, group |-> NoState, groups |-> gs]
    ELSE [code |-> 0, group |-> NoState, groups |-> gs \ Resolve(gs, key)]

\* the outcome of a call: the fault, if one strikes, and the server untouched
Call(fault, gs, answer) ==
    IF fault # 0 THEN [code |-> fault, group |-> NoState, groups |-> gs] ELSE answer

-----------------------------------------------------------------------------
(* Group resource *)

\* the admin.Group built from the plan
GroupBody(data) ==
    [email |-> Wire(ValueString(data.email)),
     name |-> Wire(ValueString(data.name)),
     description |-> Wire(ValueString(data.description))]

CreateDataFromPlan(data, res) ==
    [data EXCEPT !.id = StringValue(res.id)]

\* Create: the model written to state after Insert
CreateData(data, res) ==
    [id |-> StringValue(res.id),
     email |-> StringValue(res.email),
     name |-> StringValue(res.name),
     description |-> StringValue(res.description)]

\* Read: the groupKey handed to Groups.Get
ReadKey(data) == ValueString(data.name)

ReadDataKeepsDescription(data, ng) ==
    [id |-> StringValue(ng.id),
     email |-> StringValue(ng.email),
     name |-> StringValue(ng.name),
     description |-> data.description]

\* Read: the model written to state after Get
ReadData(data, ng) ==
    [id |-> StringValue(ng.id),
     email |-> StringValue(ng.email),
     name |-> StringValue(ng.name),
     description |-> StringValue(ng.description)]

UpdateKeyByName(data) == ValueString(data.name)

\* Update: the groupKey handed to Groups.Update
UpdateKey(data) == ValueString(data.id)

\* Update: the model written to state after Update
UpdateData(data, res) ==
    [id |-> StringValue(res.id),
     email |-> StringValue(res.email),
     name |-> StringValue(res.name),
     description |-> StringValue(res.description)]

\* Delete: the groupKey handed to Groups.Delete
DeleteKey(data) == ValueString(data.id)

DeleteSwallowsNothing(code) == FALSE

DeleteSwallowsAll(code) == code # 0

\* Delete: the error that is logged and not reported
DeleteSwallows(code) == code = NotFound

\* stringplanmodifier.UseStateForUnknown on id
PlannedId(prior) ==
    IF prior = NoState \/ prior.id = NULL THEN UNKNOWN ELSE prior.id

StateOnErrorRemoved(given) == NoState

\* a handler that adds its error returns before resp.State.Set: its response
\* carries the state the host put in it (the prior state; none for Create and
\* for a data source)
StateOnError(given) == given

\* what an operation leaves in `last`
Outcome(op, data, key, reqs, fault, code, diag, res, state) ==
    [op |-> op, data |-> data, key |-> key, requests |-> reqs, fault |-> fault,
     apiErr |-> code, diagErr |-> diag, res |-> res, state |-> state]

\* the host has configured the provider and every handler, in turn, before
\* it runs an operation
Serving == provider.terminated = FALSE /\ services.configured = 3

Ready == Serving /\ services.group = TRUE

Create(name, email, description, fault) ==
    /\ Ready
    /\ tfstate = NoState
    /\ nextId < MaxGroups
    /\ LET data == [id |-> UNKNOWN, name |-> name, email |-> email,
                    description |-> description]
           ng == GroupBody(data)
           r == Call(fault, groups, GroupsInsert(groups, nextId, ng))
       IN /\ groups' = r.groups
          /\ nextId' = IF r.code = 0 THEN nextId + 1 ELSE nextId
          /\ tfstate' = IF r.code # 0 THEN StateOnError(tfstate) ELSE CreateData(data, r.group)
          /\ last' = Outcome("Create", data, "", <<[method |-> "insert", body |-> ng]>>,
                             fault, r.code, r.code # 0, r.group, tfstate')
    /\ UNCHANGED <<provider, services>>

Read(fault) ==
    /\ Ready
    /\ tfstate # NoState
    /\ LET data == tfstate
           key == ReadKey(data)
           r == Call(fault, groups, GroupsGet(groups, key))
       IN /\ tfstate' = IF r.code # 0 THEN StateOnError(tfstate) ELSE ReadData(data, r.group)
          /\ last' = Outcome("Read", data, key, <<[method |-> "get", key |-> key]>>,
                             fault, r.code, r.code # 0, r.group, tfstate')
    /\ UNCHANGED <<groups, nextId, provider, services>>

Update(name, email, description, fault) ==
    /\ Ready
    /\ tfstate # NoState
    /\ LET data == [id |-> PlannedId(tfstate), name |-> name, email |-> email,
                    description |-> description]
           gu == GroupBody(data)
           key == UpdateKey(data)
           r == Call(fault, groups, GroupsUpdate(groups, key, gu))
       IN /\ groups' = r.groups
          /\ tfstate' = IF r.code # 0 THEN StateOnError(tfstate) ELSE UpdateData(data, r.group)
          /\ last' = Outcome("Update", data, key,
                             <<[method |-> "update", key |-> key, body |-> gu]>>,
                             fault, r.code, r.code # 0, r.group, tfstate')
    /\ UNCHANGED <<nextId, provider, services>>

\* Delete: a Delete that reports no error ends with the host dropping the
\* resource from state
DeleteHandler(op, prior, fault, before) ==
    /\ Ready
    /\ prior # NoState
    /\ LET data == prior
           key == DeleteKey(data)
           r == Call(fault, groups, GroupsDelete(groups, key))
           diag == r.code # 0 /\ ~DeleteSwallows(r.code)
       IN /\ groups' = r.groups
          /\ tfstate' = IF diag THEN tfstate ELSE NoState
          /\ last' = Outcome(op, data, key, <<[method |-> "delete", key |-> key]>>,
                             fault, r.code, diag, before, tfstate')
    /\ UNCHANGED <<nextId, provider, services>>

Delete(fault) ==
    /\ tfstate # NoState
    /\ DeleteHandler("Delete", tfstate, fault, NoState)

\* the host runs Delete once more on the prior state of the delete it ran last
\* (last.res.first: what the API answered that delete)
DeleteAgain(fault) ==
    /\ tfstate = NoState
    /\ last.op \in {"Delete", "DeleteAgain"}
    /\ last.diagErr = FALSE
    /\ DeleteHandler("DeleteAgain", last.data, fault, [first |-> last.apiErr])

ImportState(id) ==
    /\ Ready
    /\ tfstate = NoState
    /\ tfstate' = [id |-> id, name |-> NULL, email |-> NULL, description |-> NULL]
    /\ last' = Outcome("ImportState", NoState, id, <<>>, 0, 0, FALSE, NoState, tfstate')
    /\ UNCHANGED <<groups, nextId, provider, services>>

-----------------------------------------------------------------------------
(* Group data source *)

DsReadDataKeepsConfig(data, g) ==
    [id |-> data.id,
     email |-> StringValue(g.email),
     name |-> StringValue(g.name),
     description |-> StringValue(g.description)]

\* GroupDataSource.Read: the model written to state after Get
DsReadData(data, g) ==
    [id |-> StringValue(g.id),
     email |-> StringValue(g.email),
     name |-> StringValue(g.name),
     description |-> StringValue(g.description)]

\* GroupDataSource.Read: the groupKey handed to Groups.Get
DsReadKey(data) == ValueString(data.name)

DsRead(name, fault) ==
    /\ Serving
    /\ services.groupData = TRUE
    /\ LET data == [id |-> NULL, name |-> name, email |-> NULL, description |-> NULL]
           key == DsReadKey(data)
           r == Call(fault, groups, GroupsGet(groups, key))
       IN last' = Outcome("DsRead", data, key, <<[method |-> "get", key |-> key]>>,
                          fault, r.code, r.code # 0, r.group,
                          IF r.code # 0 THEN StateOnError(NoState)
                          ELSE DsReadData(data, r.group))
    /\ UNCHANGED <<groups, nextId, tfstate, provider, services>>

-----------------------------------------------------------------------------
(* Cloud Identity Policy data source *)

PolicyNames == {"policies/p1"}
PolicyTypes == {"ADMIN"}
PolicyQueries == {Nil, [group |-> "", orgUnit |-> "ou1", query |-> "q1"]}
PolicySettings == {Nil, [type |-> "settings/s1", value |-> "{}"]}

\* the policies policies.get may answer with
Policies ==
    [name : PolicyNames, type : PolicyTypes, policyQuery : PolicyQueries,
     setting : PolicySettings]

PolicyQueryCoupled(policy) ==
    IF policy.policyQuery # Nil /\ policy.setting # Nil
    THEN [group |-> StringValue(policy.policyQuery.group),
          orgUnit |-> StringValue(policy.policyQuery.orgUnit),
          query |-> StringValue(policy.policyQuery.query)]
    ELSE Nil

\* data.Query
PolicyQuery(policy) ==
    IF policy.policyQuery # Nil
    THEN [group |-> StringValue(policy.policyQuery.group),
          orgUnit |-> StringValue(policy.policyQuery.orgUnit),
          query |-> StringValue(policy.policyQuery.query)]
    ELSE Nil

\* data.Setting
PolicySetting(policy) ==
    IF policy.setting # Nil
    THEN [type |-> StringValue(policy.setting.type),
          value |-> StringValue(policy.setting.value)]
    ELSE Nil

\* CloudIdentityPolicyDataSource.Read: the model written to state after Get;
\* customer and type stay as read from the configuration
PolicyData(data, policy) ==
    [id |-> StringValue(policy.name),
     name |-> StringValue(policy.name),
     customer |-> data.customer,
     type |-> data.type,
     query |-> PolicyQuery(policy),
     setting |-> PolicySetting(policy)]

PolicyRead(name, policy, fault) ==
    /\ Serving
    /\ services.policyData = TRUE
    /\ LET data == [id |-> NULL, name |-> name, customer |-> "customers/C1",
                    type |-> NULL, query |-> Nil, setting |-> Nil]
           policyName == ValueString(data.name)
           code == IF fault # 0 THEN fault
                   ELSE IF policy.name # policyName THEN NotFound ELSE 0
       IN last' = Outcome("PolicyRead", data, policyName,
                          <<[method |-> "policies.get", key |-> policyName]>>,
                          fault, code, code # 0, IF code # 0 THEN NoState ELSE policy,
                          IF code # 0 THEN StateOnError(NoState)
                          ELSE PolicyData(data, policy))
    /\ UNCHANGED <<groups, nextId, tfstate, provider, services>>

-----------------------------------------------------------------------------
(* Provider *)

\* what os.ReadFile and google.JWTConfigFromJSON make of the credentials path
Credentials == {"unreadable", "malformed", "valid"}
Impersonated == {NULL, UNKNOWN, "admin@x"}

ReadFileFails(cred) == cred = "unreadable"

ParseFailsNever(cred) == FALSE

JWTConfigFails(cred) == cred = "malformed"

MissingImpersonatedUserNullOnly(user) == user = NULL

\* data.ImpersonatedUserEmail.IsNull() || data.ImpersonatedUserEmail.IsUnknown()
MissingImpersonatedUser(user) == user = NULL \/ user = UNKNOWN

\* GoogleWorkspaceProvider.Configure
ProviderConfigure(cred, user) ==
    /\ provider.configured = FALSE
    /\ provider' =
         IF ReadFileFails(cred)
         THEN \* log.Fatalf: the process exits
              [configured |-> TRUE, terminated |-> TRUE, diagErr |-> FALSE,
               resourceData |-> "nil", dataSourceData |-> "nil"]
         ELSE IF JWTConfigFails(cred)
         THEN [configured |-> TRUE, terminated |-> FALSE, diagErr |-> TRUE,
               resourceData |-> "nil", dataSourceData |-> "nil"]
         ELSE IF MissingImpersonatedUser(user)
         THEN [configured |-> TRUE, terminated |-> FALSE, diagErr |-> TRUE,
               resourceData |-> "nil", dataSourceData |-> "nil"]
         ELSE [configured |-> TRUE, terminated |-> FALSE, diagErr |-> FALSE,
               resourceData |-> "client", dataSourceData |-> "client"]
    /\ last' = Outcome("ProviderConfigure", [credentials |-> cred, user |-> user],
                       "", <<>>, 0, 0, provider'.diagErr, NoState, NoState)
    /\ UNCHANGED <<groups, nextId, tfstate, services>>

\* GroupResource.Configure with req.ProviderData = resp.ResourceData
GroupResourceConfigure ==
    /\ provider.configured = TRUE
    /\ provider.terminated = FALSE
    /\ services.configured = 0
    /\ services' = IF provider.resourceData = "nil"
                   THEN [services EXCEPT !.configured = 1]
                   ELSE [services EXCEPT !.configured = 1, !.group = TRUE]
    /\ last' = Outcome("GroupResourceConfigure", NoState, "", <<>>, 0, 0, FALSE, NoState, NoState)
    /\ UNCHANGED <<groups, nextId, tfstate, provider>>

\* GroupDataSource.Configure with req.ProviderData = resp.DataSourceData
GroupDataSourceConfigure ==
    /\ provider.terminated = FALSE
    /\ services.configured = 1
    /\ services' = IF provider.dataSourceData = "nil"
                   THEN [services EXCEPT !.configured = 2]
                   ELSE [services EXCEPT !.configured = 2, !.groupData = TRUE]
    /\ last' = Outcome("GroupDataSourceConfigure", NoState, "", <<>>, 0, 0, FALSE, NoState, NoState)
    /\ UNCHANGED <<groups, nextId, tfstate, provider>>

\* CloudIdentityPolicyDataSource.Configure
PolicyDataSourceConfigure ==
    /\ provider.terminated = FALSE
    /\ services.configured = 2
    /\ services' = IF provider.dataSourceData = "nil"
                   THEN [services EXCEPT !.configured = 3]
                   ELSE [services EXCEPT !.configured = 3, !.policyData = TRUE]
    /\ last' = Outcome("PolicyDataSourceConfigure", NoState, "", <<>>, 0, 0, FALSE, NoState, NoState)
    /\ UNCHANGED <<groups, nextId, tfstate, provider>>

-----------------------------------------------------------------------------
(* Other users of the Directory API *)

\* another administrator creates a group
ExtInsert(name, email, description) ==
    /\ Serving
    /\ nextId < MaxGroups
    /\ LET r == GroupsInsert(groups, nextId,
                             [email |-> email, name |-> name, description |-> description])
       IN /\ r.code = 0
          /\ groups' = r.groups
          /\ nextId' = nextId + 1
    /\ last' = Outcome("External", NoState, "", <<>>, 0, 0, FALSE, NoState, NoState)
    /\ UNCHANGED <<tfstate, provider, services>>

\* another administrator changes a group's description
ExtDescribe(g, description) ==
    /\ Serving
    /\ g \in groups
    /\ g.description # description
    /\ groups' = (groups \ {g}) \cup {[g EXCEPT !.description = description]}
    /\ last' = Outcome("External", NoState, "", <<>>, 0, 0, FALSE, NoState, NoState)
    /\ UNCHANGED <<nextId, tfstate, provider, services>>

\* another administrator deletes a group
ExtDelete(g) ==
    /\ Serving
    /\ g \in groups
    /\ groups' = groups \ {g}
    /\ last' = Outcome("External", NoState, "", <<>>, 0, 0, FALSE, NoState, NoState)
    /\ UNCHANGED <<nextId, tfstate, provider, services>>

-----------------------------------------------------------------------------
(* Specification *)

PlanDescriptions == {NULL} \cup Descriptions
ImportIds == {IdOf(1)}
DsNames == {"n1", "b@x"}
PolicyConfigNames == {"policies/p1", "policies/p2"}

Init ==
    /\ groups = {}
    /\ nextId = 0
    /\ tfstate = NoState
    /\ provider = [configured |-> FALSE, terminated |-> FALSE, diagErr |-> FALSE,
                   resourceData |-> "nil", dataSourceData |-> "nil"]
    /\ services = [configured |-> 0, group |-> FALSE, groupData |-> FALSE, policyData |-> FALSE]
    /\ last = [op |-> "None", data |-> NoState, key |-> "", requests |-> <<>>,
               fault |-> 0, apiErr |-> 0, diagErr |-> FALSE, res |-> NoState,
               state |-> NoState]

Next ==
    \/ \E cred \in Credentials, user \in Impersonated : ProviderConfigure(cred, user)
    \/ GroupResourceConfigure
    \/ GroupDataSourceConfigure
    \/ PolicyDataSourceConfigure
    \/ \E name \in Names, email \in Emails, description \in PlanDescriptions,
          fault \in Faults : Create(name, email, description, fault)
    \/ \E fault \in Faults : Read(fault)
    \/ \E name \in Names, email \in Emails, description \in PlanDescriptions,
          fault \in Faults : Update(name, email, description, fault)
    \/ \E fault \in Faults : Delete(fault)
    \/ \E fault \in Faults : DeleteAgain(fault)
    \/ \E id \in ImportIds : ImportState(id)
    \/ \E name \in DsNames, fault \in Faults : DsRead(name, fault)
    \/ \E name \in PolicyConfigNames, policy \in Policies, fault \in Faults :
          PolicyRead(name, policy, fault)
    \/ \E name \in Names, email \in Emails, description \in Descriptions \cup {""} :
          ExtInsert(name, email, description)
    \/ \E g \in groups, description \in Descriptions \cup {""} : ExtDescribe(g, description)
    \/ \E g \in groups : ExtDelete(g)

Spec == Init /\ [][Next]_vars

-----------------------------------------------------------------------------
(* Properties *)

ApiOps == {"Create", "Read", "Update", "Delete", "DeleteAgain", "DsRead", "PolicyRead"}

\* C1: after a successful Create the state holds the id the Directory API
\* assigned to the new group and the name, email and description of the
\* API's response, which is the group the API now holds.
C1_CreateStoresServerEcho ==
    (last.op = "Create" /\ ~last.diagErr) =>
        /\ last.res \in groups
        /\ last.res.id = IdOf(nextId)
        /\ tfstate.id = last.res.id
        /\ tfstate.name = last.res.name
        /\ tfstate.email = last.res.email
        /\ tfstate.description = last.res.description

\* a Create whose plan leaves description out: the state holds the API's ""
C1_Witness ==
    /\ last.op = "Create"
    /\ ~last.diagErr
    /\ last.data.description = NULL
    /\ tfstate.description = ""
    /\ tfstate.id = "id1"

\* C2: a Delete that the API answers (no fault) reports no error, whether
\* the group was there or not, and leaves no resource in state; run once
\* more on the same prior state it is answered 404 and again reports no
\* error.
C2_DeleteTwice ==
    /\ (last.op \in {"Delete", "DeleteAgain"} /\ last.fault = 0) =>
           (~last.diagErr /\ tfstate = NoState)
    /\ (last.op = "DeleteAgain" /\ last.fault = 0) =>
           (last.apiErr = NotFound /\ last.requests[1].key = last.data.id)

\* the second Delete of a group that the first one removed
C2_Witness ==
    /\ last.op = "DeleteAgain"
    /\ last.res.first = 0
    /\ last.apiErr = NotFound
    /\ ~last.diagErr

\* C3: a Read that follows a successful Create at once, and that the API
\* answers, reports no error and writes the state that Create stored.
C3_ReadAfterCreate ==
    [][(last.op = "Create" /\ ~last.diagErr /\ last'.op = "Read" /\ last'.fault = 0)
         => (~last'.diagErr /\ tfstate' = tfstate)]_vars

\* C4: a successful Update whose plan leaves description out does not leave
\* in state the non-empty description the API held for the group before.
C4_UpdateDropsStaleDescription ==
    [][(last'.op = "Update" /\ ~last'.diagErr /\ last'.data.description = NULL)
         => \A g \in groups :
               (g.id = last'.key /\ g.description # "") =>
                   tfstate'.description # g.description]_vars

\* C5: every operation makes exactly one API request; it reports an error
\* exactly when the request failed, the 404 of a Delete excepted, and the
\* error is the one the API gave.
C5_OneCallErrorsSurface ==
    last.op \in ApiOps =>
        /\ Len(last.requests) = 1
        /\ last.fault # 0 => last.apiErr = last.fault
        /\ last.diagErr <=>
              (last.apiErr # 0 /\
               ~(last.op \in {"Delete", "DeleteAgain"} /\ last.apiErr = NotFound))

\* a 404 on Update is reported
C5_Witness ==
    /\ last.op = "Update"
    /\ last.apiErr = NotFound
    /\ last.diagErr
    /\ Len(last.requests) = 1

\* C6: the Insert request carries no id, and a successful Read or Update
\* leaves in state the id that was there before.
C6_IdImmutable ==
    [][/\ last'.op = "Create" => ~("id" \in DOMAIN last'.requests[1].body)
       /\ (last'.op \in {"Read", "Update"} /\ ~last'.diagErr /\ tfstate.id # NULL)
             => tfstate'.id = tfstate.id]_vars

\* C7 as stated: Read, Update and the data source's Read all address the
\* group by the name of the record.
C7_NameIsKeyOfReadAndUpdate ==
    last.op \in {"Read", "Update", "DsRead"} =>
        last.requests[1].key = ValueString(last.data.name)

\* C7: Read and the data source's Read address the group by the record's
\* name; Update (like Delete) addresses it by the record's id.
C7_NameIsKeyOfRead ==
    /\ last.op \in {"Read", "DsRead"} =>
           last.requests[1].key = ValueString(last.data.name)
    /\ last.op \in {"Update", "Delete", "DeleteAgain"} =>
           last.requests[1].key = ValueString(last.data.id)

\* an Update that reached its group by an id that is not the planned name
C7_Witness ==
    /\ last.op = "Update"
    /\ last.apiErr = 0
    /\ last.requests[1].key = "id1"
    /\ last.data.name = "n1"

\* C8 as stated: query and setting are both written or both nil.
C8_QueryAndSettingTogether ==
    (last.op = "PolicyRead" /\ ~last.diagErr) =>
        (last.state.query = Nil <=> last.state.setting = Nil)

\* C8: query is written exactly when the response carries a PolicyQuery,
\* setting exactly when it carries a Setting, each with the response's
\* values and each whatever the other is.
C8_QueryAndSettingMirrorResponse ==
    (last.op = "PolicyRead" /\ ~last.diagErr) =>
        /\ last.state.query = last.res.policyQuery
        /\ last.state.setting = last.res.setting

\* a response with a PolicyQuery and no Setting
C8_Witness ==
    /\ last.op = "PolicyRead"
    /\ ~last.diagErr
    /\ last.state.query # Nil
    /\ last.state.setting = Nil

\* C9 as stated: unreadable and malformed credentials both end the process
\* and leave no error diagnostic.
C9_BadCredentialsTerminate ==
    (last.op = "ProviderConfigure"
        /\ last.data.credentials \in {"unreadable", "malformed"}) =>
        (provider.terminated /\ ~provider.diagErr)

\* C9: an unreadable credentials file ends the process with no diagnostic;
\* a readable file that does not parse leaves the process running with an
\* error diagnostic and no client.
C9_UnreadableTerminatesMalformedReports ==
    /\ (last.op = "ProviderConfigure" /\ last.data.credentials = "unreadable") =>
           (provider.terminated /\ ~provider.diagErr)
    /\ (last.op = "ProviderConfigure" /\ last.data.credentials = "malformed") =>
           /\ ~provider.terminated
           /\ provider.diagErr
           /\ provider.resourceData = "nil"
           /\ provider.dataSourceData = "nil"

\* malformed credentials: an error diagnostic, the process goes on
C9_Witness ==
    /\ last.op = "ProviderConfigure"
    /\ last.data.credentials = "malformed"
    /\ provider.diagErr
    /\ ~provider.terminated

C11_ReadRefreshesAllFields ==
    (last.op = "Read" /\ ~last.diagErr) =>
        \E g \in groups :
            /\ g.id = last.requests[1].key \/ g.email = last.requests[1].key
            /\ tfstate = [id |-> g.id, name |-> g.name, email |-> g.email,
                          description |-> g.description]

\* a Read after another administrator changed the group's description
C11_Witness ==
    /\ last.op = "Read"
    /\ ~last.diagErr
    /\ last.data.description = "d1"
    /\ tfstate.description = ""
    /\ tfstate.id = last.data.id

\* C12: a Create, Read or Update, or a data source's Read, that ends with an
\* error leaves the resource's state as it was, and its response carries no
\* state but the one the host gave it.
C12_FailedOperationKeepsState ==
    [][(last'.op \in {"Create", "Read", "Update", "DsRead", "PolicyRead"}
          /\ last'.diagErr)
         => /\ tfstate' = tfstate
            /\ last'.state = IF last'.op \in {"DsRead", "PolicyRead"}
                              THEN NoState ELSE tfstate]_vars

\* an Update that failed: the state still holds what the plan would change
C12_Witness ==
    /\ last.op = "Update"
    /\ last.diagErr
    /\ tfstate # NoState
    /\ tfstate.id = "id1"
    /\ tfstate.name # last.data.name
    /\ last.state = tfstate

\* C13: a Read that follows ImportState at once, and that the API answers,
\* reports no error and stores the API's record of the group whose id was
\* imported, whenever the API holds a group with that id.
C13_ImportThenRead ==
    [][(last.op = "ImportState" /\ last'.op = "Read" /\ last'.fault = 0
          /\ \E g \in groups : g.id = tfstate.id)
         => /\ ~last'.diagErr
            /\ \E g \in groups :
                  /\ g.id = tfstate.id
                  /\ tfstate' = [id |-> g.id, name |-> g.name, email |-> g.email,
                                 description |-> g.description]]_vars

\* C14: after a successful Read of the policy data source, id and name are
\* the response's policy name and type is the response's policy type.
C14_PolicyComputedFieldsMirrorResponse ==
    (last.op = "PolicyRead" /\ ~last.diagErr) =>
        /\ last.state.id = last.res.name
        /\ last.state.name = last.res.name
        /\ last.state.type = last.res.type

\* C15: the provider's Configure sets ResourceData and DataSourceData, both
\* to the one client, exactly when the credentials were read and parsed and
\* impersonated_user_email is neither null nor unknown; with an error
\* diagnostic both are unset; and a handler's Configure sets its service
\* exactly when it is given provider data, and reports no error when it is
\* given none.
C15_ClientOnlyOnFullSuccess ==
    /\ provider.resourceData = provider.dataSourceData
    /\ provider.diagErr => provider.resourceData = "nil"
    /\ last.op = "ProviderConfigure" =>
          (provider.resourceData = "client" <=>
             (last.data.credentials = "valid" /\ last.data.user \notin {NULL, UNKNOWN}))
    /\ last.op = "GroupResourceConfigure" =>
          (~last.diagErr /\ (services.group <=> provider.resourceData = "client"))
    /\ last.op = "GroupDataSourceConfigure" =>
          (~last.diagErr /\ (services.groupData <=> provider.dataSourceData = "client"))
    /\ last.op = "PolicyDataSourceConfigure" =>
          (~last.diagErr /\ (services.policyData <=> provider.dataSourceData = "client"))

\* the data source configured after a Configure that reported an error: no
\* provider data, no service, no further error
C15_Witness ==
    /\ last.op = "GroupDataSourceConfigure"
    /\ provider.diagErr
    /\ provider.dataSourceData = "nil"
    /\ ~services.group
    /\ ~services.groupData
    /\ ~last.diagErr

====
